---- MODULE Spec2Model ----
(***************************************************************************)
(* Model of novelinsights/wikigen_fiction/agents/read_chapter_agent.py:    *)
(* the prompt builder (task, instructions, general_reminders, template),   *)
(* the reply parser (ReadChapterResponse.parse_response) and the agent     *)
(* glue (ReadChapterAgent.generate / _mock_generate).                      *)
(*                                                                         *)
(* Strings are sequences of tokens.  "#" is one hash, "\n" and " " are     *)
(* whitespace, "x" is one character of ordinary text; a heading title      *)
(* (" Entities", ...), the skip sentinel and a run of prose are one atomic *)
(* token each.  Headings are therefore spelled with their exact number of  *)
(* hashes, and str.split / str.strip / `in` are computed on the token      *)
(* sequence as Python computes them on characters.  Prompts and replies    *)
(* are written with the same tokens.                                       *)
(***************************************************************************)
EXTENDS Integers, Sequences, FiniteSets, TLC

VARIABLES
    pc,                 \* position of the running call
    op,                 \* which operation is running / ran last
    title, content, story_so_far, prev_chap_context,   \* arguments of the call
    prompt,             \* local `prompt` of template / generate / _mock_generate
    resp_str,           \* the reply text handed to parse_response
    ret,                \* value returned by the call (NoValue before / on raise)
    raised,             \* TRUE iff the call ended by an uncaught exception
    last_response,      \* self.last_response (Unset until first assigned)
    client,             \* self.client
    llm_calls,          \* how often the LLM wrapper has been invoked
    llm_prompt,         \* the prompt of the latest LLM invocation
    history,            \* BaseAgent's record of (kind, prompt, response)
    trace,              \* steps of the running call, in execution order
    calls               \* number of calls started on the agent

vars == <<pc, op, title, content, story_so_far, prev_chap_context, prompt,
          resp_str, ret, raised, last_response, client, llm_calls, llm_prompt,
          history, trace, calls>>

-----------------------------------------------------------------------------
(* Bounds of the model *)

\* sections "###" generated in a reply run from 0 to MaxSections
MaxSections == 8
\* heading markers are generated with 0 (absent) to MaxDepth hashes
MaxDepth == 3
\* section bodies and caller-supplied strings have at most MaxTextLen tokens
MaxTextLen == 1
\* calls made on one agent
MaxCalls == 2

-----------------------------------------------------------------------------
(* Python values *)

None == [py |-> "None"]
Unset == [py |-> "unset attribute"]     \* attribute never assigned
NoValue == [py |-> "no value"]          \* nothing returned (yet, or on raise)
IndexError == [py |-> "IndexError"]     \* list index out of range
\* a str argument that is not None
Str(s) == [str |-> s]

-----------------------------------------------------------------------------
(* Literals of parse_response *)

Hashes(n) == [i \in 1..n |-> "#"]

SKIP_SENTINEL == <<"<SKIPPED-EXTRACTION>">>
SUMMARY_HEADING == <<"#", "#", " General Chapter Summary">>
EXTRACTION_HEADING == <<"#", "#", " Information Extraction">>
SECTION_MARK == <<"#", "#", "#">>
SUMMARY_PREFIX == <<"#", "#", " Chapter Summary">>

Whitespace == {"\n", " "}

(* Python str primitives on token sequences *)

\* s.find(sep) + 1: 1-based index of the leftmost occurrence, 0 if none
Find(s, sep) ==
    LET hits == {i \in 1..(Len(s) - Len(sep) + 1) :
                    SubSeq(s, i, i + Len(sep) - 1) = sep}
    IN IF hits = {} THEN 0 ELSE CHOOSE i \in hits : \A j \in hits : i <= j

\* sep in s
Contains(s, sep) == Find(s, sep) # 0

\* s.split(sep): leftmost, non-overlapping occurrences; always >= 1 piece
RECURSIVE Split(_, _)
Split(s, sep) ==
    LET i == Find(s, sep)
    IN IF i = 0 THEN <<s>>
       ELSE <<SubSeq(s, 1, i - 1)>> \o Split(SubSeq(s, i + Len(sep), Len(s)), sep)

\* s.strip(): leading and trailing whitespace removed
Strip(s) ==
    LET keep == {i \in 1..Len(s) : s[i] \notin Whitespace}
    IN IF keep = {} THEN <<>>
       ELSE SubSeq(s, CHOOSE i \in keep : \A j \in keep : i <= j,
                      CHOOSE i \in keep : \A j \in keep : i >= j)

-----------------------------------------------------------------------------
(* ReadChapterExtraction / ReadChapterResponse *)

ReadChapterExtraction(characters, events, locations, organizations, things, concepts, main_arc) ==
    [characters |-> characters, events |-> events, locations |-> locations,
     organizations |-> organizations, things |-> things, concepts |-> concepts,
     main_arc |-> main_arc]

ReadChapterResponse(full_response, skipped_info_extraction, info_extraction, chapter_summary) ==
    [full_response |-> full_response,
     skipped_info_extraction |-> skipped_info_extraction,
     info_extraction |-> info_extraction,
     chapter_summary |-> chapter_summary]

\* ExtractionOf with absent sections left empty instead of failing
ExtractionOf_Padded(pre_summary) ==
    LET split2 == Split(pre_summary, EXTRACTION_HEADING)
    IN IF Len(split2) < 2 THEN IndexError
       ELSE LET extract_split == Split(Strip(split2[2]), SECTION_MARK)
                piece(k) == IF k <= Len(extract_split) THEN extract_split[k]
                            ELSE <<>>
            IN ReadChapterExtraction(
                   SECTION_MARK \o piece(2), SECTION_MARK \o piece(3),
                   SECTION_MARK \o piece(4), SECTION_MARK \o piece(5),
                   SECTION_MARK \o piece(6), SECTION_MARK \o piece(7),
                   SECTION_MARK \o piece(8))

\* ExtractionOf taking the last piece of split2 (split2[-1]) for split2[1]
ExtractionOf_LastPiece(pre_summary) ==
    LET split2 == Split(pre_summary, EXTRACTION_HEADING)
        extract_split == Split(Strip(split2[Len(split2)]), SECTION_MARK)
    IN IF Len(extract_split) < 8 THEN IndexError
       ELSE ReadChapterExtraction(
                SECTION_MARK \o extract_split[2], SECTION_MARK \o extract_split[3],
                SECTION_MARK \o extract_split[4], SECTION_MARK \o extract_split[5],
                SECTION_MARK \o extract_split[6], SECTION_MARK \o extract_split[7],
                SECTION_MARK \o extract_split[8])

\* ExtractionOf reading extract_split[0..6] for extract_split[1..7]
ExtractionOf_OffByOne(pre_summary) ==
    LET split2 == Split(pre_summary, EXTRACTION_HEADING)
    IN IF Len(split2) < 2 THEN IndexError
       ELSE LET extract_split == Split(Strip(split2[2]), SECTION_MARK)
            IN IF Len(extract_split) < 7 THEN IndexError
               ELSE ReadChapterExtraction(
                        SECTION_MARK \o extract_split[1],
                        SECTION_MARK \o extract_split[2],
                        SECTION_MARK \o extract_split[3],
                        SECTION_MARK \o extract_split[4],
                        SECTION_MARK \o extract_split[5],
                        SECTION_MARK \o extract_split[6],
                        SECTION_MARK \o extract_split[7])

\* the else-branch of parse_response: lines 195-212
ExtractionOf(pre_summary) ==
    LET split2 == Split(pre_summary, EXTRACTION_HEADING)
    IN IF Len(split2) < 2 THEN IndexError
       ELSE LET text_extraction == Strip(split2[2])
                extract_split == Split(text_extraction, SECTION_MARK)
            IN IF Len(extract_split) < 8 THEN IndexError
               ELSE ReadChapterExtraction(
                        SECTION_MARK \o extract_split[2],
                        SECTION_MARK \o extract_split[3],
                        SECTION_MARK \o extract_split[4],
                        SECTION_MARK \o extract_split[5],
                        SECTION_MARK \o extract_split[6],
                        SECTION_MARK \o extract_split[7],
                        SECTION_MARK \o extract_split[8])

\* parse_response without the `if skipped_info_extraction` branch
parse_response_AlwaysExtract(response) ==
    LET split1 == Split(response, SUMMARY_HEADING)
    IN IF Len(split1) < 2 THEN IndexError
       ELSE LET info_extraction == ExtractionOf(split1[1])
            IN IF info_extraction = IndexError THEN IndexError
               ELSE ReadChapterResponse(response,
                        Contains(response, SKIP_SENTINEL), info_extraction,
                        SUMMARY_PREFIX \o split1[2])

\* parse_response looking for the sentinel in split1[0] only
parse_response_SentinelInBlock(response) ==
    LET split1 == Split(response, SUMMARY_HEADING)
    IN IF Len(split1) < 2 THEN IndexError
       ELSE LET skipped_info_extraction == Contains(split1[1], SKIP_SENTINEL)
                info_extraction ==
                    IF skipped_info_extraction THEN None
                    ELSE ExtractionOf(split1[1])
            IN IF info_extraction = IndexError THEN IndexError
               ELSE ReadChapterResponse(response, skipped_info_extraction,
                        info_extraction, SUMMARY_PREFIX \o split1[2])

\* parse_response splitting once only (split(..., 1)): the summary is all
\* the text after the first heading
parse_response_SplitOnce(response) ==
    LET skipped_info_extraction == Contains(response, SKIP_SENTINEL)
        g == Find(response, SUMMARY_HEADING)
    IN IF g = 0 THEN IndexError
       ELSE LET info_extraction ==
                    IF skipped_info_extraction THEN None
                    ELSE ExtractionOf(SubSeq(response, 1, g - 1))
            IN IF info_extraction = IndexError THEN IndexError
               ELSE ReadChapterResponse(response, skipped_info_extraction,
                        info_extraction,
                        SUMMARY_PREFIX
                            \o SubSeq(response, g + Len(SUMMARY_HEADING),
                                      Len(response)))

\* ReadChapterResponse.parse_response; the value IndexError stands for the
\* exception raised by an out-of-range list index
parse_response(response) ==
    LET full_response == response
        skipped_info_extraction == Contains(response, SKIP_SENTINEL)
        split1 == Split(response, SUMMARY_HEADING)
    IN IF Len(split1) < 2 THEN IndexError
       ELSE LET chapter_summary == SUMMARY_PREFIX \o split1[2]
                info_extraction ==
                    IF skipped_info_extraction THEN None
                    ELSE ExtractionOf(split1[1])
            IN IF info_extraction = IndexError THEN IndexError
               ELSE ReadChapterResponse(full_response, skipped_info_extraction,
                                        info_extraction, chapter_summary)

-----------------------------------------------------------------------------
(* Prompt builder.  A prompt is written with the same tokens as a reply;  *)
(* a run of prose or of bullet lines is one token.                        *)

task == <<"Your task is to produce a comprehensive and detailed summary ...">>

InstructionSection(name) == <<"#", "#", "#", name, "\n", "<bullets>", "\n", "\n">>

\* the string literal of instructions(), lines 13-105
instructions_text ==
    <<"#", "#", " Non-Plot Content", "\n",
      "<bullet>", "\n",
      "<bullet: ... replace the content with \"", "<SKIPPED-EXTRACTION>",
      "\"", "\n", "\n",
      "#", "#", " Information Extraction", "\n", "\n",
      "<For each category below ...>", "\n", "\n",
      "<For all items in each category ...>", "\n", "\n">>
    \o InstructionSection(" Entities")
    \o InstructionSection(" Chronology")
    \o InstructionSection(" Locations")
    \o InstructionSection(" Organizations")
    \o InstructionSection(" Things")
    \o InstructionSection(" Concepts")
    \o InstructionSection(" Story Arc")
    \o <<"#", "#", " General Chapter Summary", "\n", "<bullets>">>

\* the string literal appended at lines 106-107
continuity_clause ==
    <<"#", "#", " 3.", " Previous Chapter(s) Summary:", "\n", "<bullet>">>

\* `if prev_chap_context:` for `if prev_chap_context is not None:`
instructions_Truthy(prev_chap_context_) ==
    IF prev_chap_context_ # None /\ prev_chap_context_.str # <<>>
    THEN instructions_text \o continuity_clause
    ELSE instructions_text

instructions(prev_chap_context_) ==
    IF prev_chap_context_ # None
    THEN instructions_text \o continuity_clause
    ELSE instructions_text

general_reminders ==
    <<"<bullet>", "\n", "<bullet>", "\n", "<bullet>", "\n",
      "<bullet: ... the number of hashes '#' (like ",
      "#", "#", " Information Extraction", ").", "\n">>

\* lines 144-156 of template
chapter_and_instructions(title_, content_, prev_chap_context_) ==
    <<"#", " Chapter Context:", "\n",
      "#", "#", " Chapter Title:", " ">> \o title_ \o <<"\n",
      "#", "#", " Chapter Content:", " ", "\n",
      "---", "\n">> \o content_ \o <<"\n",
      "---", "\n",
      "\n",
      "#", " Instructions", "\n",
      "---", "\n">> \o instructions(prev_chap_context_) \o <<"\n",
      "---", "\n",
      "#", " General Reminders", "\n">> \o general_reminders

\* template with the story block nested under the prev_chap_context test
template_NestedGuard(title_, content_, story_so_far_, prev_chap_context_) ==
    <<"#", " Task", "\n">> \o task
    \o (IF prev_chap_context_ # None /\ story_so_far_ # None
        THEN <<"\n", "#", " Story So Far:", "\n">> \o story_so_far_.str \o <<"\n">>
        ELSE <<>>)
    \o (IF prev_chap_context_ # None
        THEN <<"\n", "#", " Previous Chapter(s) Context:", "\n">>
                \o prev_chap_context_.str \o <<"\n">>
        ELSE <<>>)
    \o chapter_and_instructions(title_, content_, prev_chap_context_)

template(title_, content_, story_so_far_, prev_chap_context_) ==
    <<"#", " Task", "\n">> \o task
    \o (IF story_so_far_ # None
        THEN <<"\n", "#", " Story So Far:", "\n">> \o story_so_far_.str \o <<"\n">>
        ELSE <<>>)
    \o (IF prev_chap_context_ # None
        THEN <<"\n", "#", " Previous Chapter(s) Context:", "\n">>
                \o prev_chap_context_.str \o <<"\n">>
        ELSE <<>>)
    \o chapter_and_instructions(title_, content_, prev_chap_context_)

\* ReadChapterAgent.mock_template
mock_template ==
    template(<<"{{title}}">>, <<"{{content}}">>,
             Str(<<"<OPT>", "{{story_so_far}}", "</OPT>">>),
             Str(<<"<OPT>", "{{prev_chap_context}}", "</OPT>">>))

\* ReadChapterAgent.prompt
AgentPrompt(title_, content_, story_so_far_, prev_chap_context_) ==
    template(title_, content_, story_so_far_, prev_chap_context_)

-----------------------------------------------------------------------------
(* Replies the model can be handed.  The LLM is external: any text can    *)
(* come back.  The replies below are written in the format the            *)
(* instructions ask for, with every part of that format varied.           *)

\* the seven "###" titles of instructions(), in their order
SectionTitles == <<" Entities", " Chronology", " Locations", " Organizations",
                   " Things", " Concepts", " Story Arc">>

\* strings of at most n tokens over an alphabet
StringsUpTo(alphabet, n) == UNION {[1..k -> alphabet] : k \in 0..n}

Texts == StringsUpTo({"x", "\n"}, MaxTextLen)

\* the titles as asked for, with two of them exchanged, with one misnamed
TitleOrders ==
    {SectionTitles,
     [SectionTitles EXCEPT ![1] = " Chronology", ![2] = " Entities"],
     [SectionTitles EXCEPT ![1] = " Characters"]}

TitleAt(order, k) == IF k <= Len(order) THEN order[k] ELSE " Extra"

Heading(depth, name) == IF depth = 0 THEN <<>> ELSE Hashes(depth) \o <<name>>

Section(order, k, body) == SECTION_MARK \o <<TitleAt(order, k)>> \o body

\* sections 1..n; bodies[k] is the text under the k-th title
RECURSIVE Sections(_, _, _)
Sections(order, n, bodies) ==
    IF n = 0 THEN <<>>
    ELSE Sections(order, n - 1, bodies) \o Section(order, n, bodies[n])

\* every section with the same body / odd and even sections with their own
Same(body) == [k \in 1..(MaxSections + 1) |-> body]
Alternating(odd, even) ==
    [k \in 1..(MaxSections + 1) |-> IF k % 2 = 1 THEN odd ELSE even]

Preambles == {<<>>, <<"x", "\n">>, <<"#", "#", "#", " Notes", "\n">>}
Summaries == {<<>>, <<"\n", "x">>,
              <<"\n", "x", "\n", "#", "#", "#", " Notes", "\n", "x">>}
Gaps == {<<>>, <<"\n">>, <<"\n", " ">>}
SkipPlaces == {"none", "preamble", "block", "summary"}

SkipAt(place, here) == IF place = here THEN SKIP_SENTINEL ELSE <<>>

\* preamble, "## Information Extraction", n sections, gap, "## General
\* Chapter Summary", summary; dIE and dG are the hashes of the two "##"
\* headings (0: heading absent)
Reply(pre, dIE, order, n, bodies, gap, dG, summary, skip) ==
    pre \o SkipAt(skip, "preamble")
        \o Heading(dIE, " Information Extraction") \o <<"\n">>
        \o SkipAt(skip, "block")
        \o Sections(order, n, bodies) \o gap
        \o Heading(dG, " General Chapter Summary")
        \o summary \o SkipAt(skip, "summary")

\* the format with the section count, heading depths and sentinel varied
StructuredReplies ==
    {Reply(pre, dIE, SectionTitles, n, Same(body), <<"\n">>, dG, summary, skip) :
        pre \in Preambles, dIE \in 0..MaxDepth, n \in 0..MaxSections,
        body \in Texts, dG \in 0..MaxDepth, summary \in Summaries,
        skip \in SkipPlaces}

\* the format as asked for: both "##" headings, seven sections
WellFormed(pre, order, odd, even, gap, summary) ==
    Reply(pre, 2, order, 7, Alternating(odd, even), gap, 2, summary, "none")

\* well-formed replies, titles as asked for
WellFormedReplies ==
    {WellFormed(pre, SectionTitles, odd, even, gap, summary) :
        pre \in Preambles, odd \in Texts, even \in Texts, gap \in Gaps,
        summary \in Summaries}

\* well-formed but for the titles
RetitledReplies ==
    {WellFormed(<<>>, order, body, body, <<"\n">>, <<"\n", "x">>) :
        order \in TitleOrders, body \in Texts}

\* a heading given twice
RepeatedHeadingReplies ==
    {Reply(<<>>, 2, SectionTitles, n, Same(<<"x">>), <<"\n">>, dG, <<"\n", "x">>, "none")
        \o Reply(<<>>, 2, SectionTitles, m, Same(<<"x">>), <<"\n">>, 2, <<"\n", "x">>, skip) :
        n \in {0, 3, 7}, m \in {4, 7}, dG \in {0, 2}, skip \in {"none", "block"}}

\* one token inserted into, or removed from, a well-formed reply
EditTokens == {"#", "\n", "x", "<SKIPPED-EXTRACTION>"}
Insert(s, i, t) == SubSeq(s, 1, i - 1) \o <<t>> \o SubSeq(s, i, Len(s))
Delete(s, i) == SubSeq(s, 1, i - 1) \o SubSeq(s, i + 1, Len(s))
EditedReplies ==
    LET base == WellFormed(<<>>, SectionTitles, <<"x">>, <<"x">>, <<"\n">>, <<"\n", "x">>)
    IN {Insert(base, i, t) : i \in 1..(Len(base) + 1), t \in EditTokens}
       \cup {Delete(base, i) : i \in 1..Len(base)}

Replies == StructuredReplies \cup WellFormedReplies \cup RetitledReplies
           \cup RepeatedHeadingReplies \cup EditedReplies

-----------------------------------------------------------------------------
(* Specification SpecParse: parse_response applied to a reply *)

Idle == /\ op = "none" /\ title = <<>> /\ content = <<>>
        /\ story_so_far = None /\ prev_chap_context = None
        /\ prompt = <<>> /\ last_response = Unset /\ client = "QdrantClient"
        /\ llm_calls = 0 /\ llm_prompt = <<>> /\ history = <<>>
        /\ trace = <<>> /\ calls = 0

InitParse ==
    /\ Idle
    /\ pc = "parse_response"
    /\ resp_str \in Replies
    /\ ret = NoValue
    /\ raised = FALSE

agentVars == <<op, title, content, story_so_far, prev_chap_context, prompt,
               last_response, client, llm_calls, llm_prompt, history, trace,
               calls>>

\* parse_response(resp_str) returns
ParseReturns ==
    /\ pc = "parse_response"
    /\ parse_response(resp_str) # IndexError
    /\ ret' = parse_response(resp_str)
    /\ raised' = FALSE
    /\ pc' = "returned"
    /\ UNCHANGED <<resp_str, agentVars>>

\* parse_response(resp_str) raises
ParseRaises ==
    /\ pc = "parse_response"
    /\ parse_response(resp_str) = IndexError
    /\ ret' = NoValue
    /\ raised' = TRUE
    /\ pc' = "raised"
    /\ UNCHANGED <<resp_str, agentVars>>

NextParse == ParseReturns \/ ParseRaises

SpecParse == InitParse /\ [][NextParse]_vars

-----------------------------------------------------------------------------
(* Vocabulary of the properties, defined on the reply text itself *)

Finished == pc \in {"returned", "raised"}

\* t occurs in s at position i
OccursAt(s, t, i) ==
    /\ i >= 1 /\ i + Len(t) - 1 <= Len(s)
    /\ \A j \in 1..Len(t) : s[i + j - 1] = t[j]

Occurs(s, t) == \E i \in 1..(Len(s) + 1) : OccursAt(s, t, i)

\* position of the first occurrence of t in s at or after position from;
\* Len(s) + 1 when there is none
FirstFrom(s, t, from) ==
    LET at == {i \in from..Len(s) : OccursAt(s, t, i)}
    IN IF at = {} THEN Len(s) + 1 ELSE CHOOSE i \in at : \A j \in at : i <= j

HasSentinel(s) == \E i \in 1..Len(s) : s[i] = "<SKIPPED-EXTRACTION>"
HasSummaryHeading(s) == Occurs(s, <<"#", "#", " General Chapter Summary">>)

\* positions of the "###" markers met reading s from left to right, from
\* position i on
RECURSIVE MarksFrom(_, _)
MarksFrom(s, i) ==
    IF i + 2 > Len(s) THEN <<>>
    ELSE IF s[i] = "#" /\ s[i + 1] = "#" /\ s[i + 2] = "#"
         THEN <<i>> \o MarksFrom(s, i + 3)
         ELSE MarksFrom(s, i + 1)

Marks(s) == MarksFrom(s, 1)
MarkCount(s) == Len(Marks(s))

\* s without its trailing whitespace
RECURSIVE RStrip(_)
RStrip(s) ==
    IF s # <<>> /\ s[Len(s)] \in {"\n", " "} THEN RStrip(SubSeq(s, 1, Len(s) - 1))
    ELSE s

\* the text before the first "## General Chapter Summary"
BeforeSummary(s) ==
    SubSeq(s, 1, FirstFrom(s, <<"#", "#", " General Chapter Summary">>, 1) - 1)

\* the text between the first and the second "## General Chapter Summary"
\* (to the end of s when the heading occurs once)
FirstSummaryBlock(s) ==
    LET h == <<"#", "#", " General Chapter Summary">>
        g == FirstFrom(s, h, 1)
    IN SubSeq(s, g + 3, FirstFrom(s, h, g + 3) - 1)

\* everything after the first "## General Chapter Summary"
AfterSummaryHeading(s) ==
    SubSeq(s, FirstFrom(s, <<"#", "#", " General Chapter Summary">>, 1) + 3, Len(s))

\* the text between the first "## Information Extraction" and the first
\* "## General Chapter Summary"
ExtractionBlock(s) ==
    LET pre == BeforeSummary(s)
    IN SubSeq(pre, FirstFrom(pre, <<"#", "#", " Information Extraction">>, 1) + 3,
              Len(pre))

FieldNames == <<"characters", "events", "locations", "organizations", "things",
                "concepts", "main_arc">>

-----------------------------------------------------------------------------
(* C1 *)

ExtractionIffNotSkipped(r) ==
    (r.info_extraction # None) <=> (r.skipped_info_extraction = FALSE)

\* C1: every response parse_response returns, and every response kept in
\* last_response, has info_extraction present exactly when
\* skipped_info_extraction is false
C1_ExtractionIffNotSkipped ==
    /\ pc = "returned" /\ ret # NoValue => ExtractionIffNotSkipped(ret)
    /\ last_response # Unset => ExtractionIffNotSkipped(last_response)

C1_Witness ==
    /\ pc = "returned"
    /\ ret.skipped_info_extraction = FALSE
    /\ ret.info_extraction # None
    /\ HasSummaryHeading(resp_str)

-----------------------------------------------------------------------------
(* C2 *)

SkippedResponse(r) ==
    /\ pc = "returned"
    /\ ret.skipped_info_extraction = TRUE
    /\ ret.info_extraction = None
    /\ ret.chapter_summary
         = <<"#", "#", " Chapter Summary">> \o FirstSummaryBlock(r)

\* C2 as stated: every reply that contains the skip sentinel is parsed into
\* a response with the skipped flag set, no extraction, and its summary
C2_Original_SentinelAlwaysParsed ==
    (Finished /\ HasSentinel(resp_str)) => SkippedResponse(resp_str)

\* C2 amended: every reply that contains the skip sentinel and the heading
\* "## General Chapter Summary" is parsed into a response with the skipped
\* flag set, no extraction, and the summary taken from after that heading,
\* whatever "## Information Extraction" or "###" it contains
C2_SentinelWithSummaryParsed ==
    (Finished /\ HasSentinel(resp_str) /\ HasSummaryHeading(resp_str))
        => SkippedResponse(resp_str)

C2_Witness ==
    /\ pc = "returned"
    /\ HasSentinel(resp_str)
    /\ ~Occurs(resp_str, <<"#", "#", " Information Extraction">>)
    /\ MarkCount(resp_str) = 0
    /\ Len(ret.chapter_summary) > 3

-----------------------------------------------------------------------------
(* C3 *)

\* C3 as stated: every reply with fewer than 7 "###" sections makes
\* parse_response raise
C3_Original_FewSectionsRaise ==
    (Finished /\ MarkCount(resp_str) < 7) => (raised /\ ret = NoValue)

\* C3 amended: every reply without the skip sentinel and with fewer than 7
\* "###" sections makes parse_response raise and return nothing; a response
\* returned for a reply with fewer than 7 sections carries no extraction
C3_FewSectionsRaiseUnlessSkipped ==
    Finished =>
        /\ (~HasSentinel(resp_str) /\ MarkCount(resp_str) < 7)
              => (raised /\ ret = NoValue)
        /\ (pc = "returned" /\ MarkCount(resp_str) < 7)
              => ret.info_extraction = None

C3_Witness ==
    /\ pc = "raised"
    /\ ~HasSentinel(resp_str)
    /\ HasSummaryHeading(resp_str)
    /\ Occurs(BeforeSummary(resp_str), <<"#", "#", " Information Extraction">>)
    /\ MarkCount(resp_str) = 6

-----------------------------------------------------------------------------
(* C4 *)

\* the headings hs occur in s one after the other, from position from on
RECURSIVE InOrder(_, _, _)
InOrder(s, hs, from) ==
    IF hs = <<>> THEN TRUE
    ELSE LET i == FirstFrom(s, Head(hs), from)
         IN i <= Len(s) /\ InOrder(s, Tail(hs), i + Len(Head(hs)))

ExpectedHeadings ==
    <<<<"#", "#", " Information Extraction">>,
      <<"#", "#", "#", " Entities">>, <<"#", "#", "#", " Chronology">>,
      <<"#", "#", "#", " Locations">>, <<"#", "#", "#", " Organizations">>,
      <<"#", "#", "#", " Things">>, <<"#", "#", "#", " Concepts">>,
      <<"#", "#", "#", " Story Arc">>,
      <<"#", "#", " General Chapter Summary">>>>

\* C4 as stated: a reply is never parsed into an extraction unless it holds
\* the expected headings, named as expected, in the expected order
C4_Original_OnlyExactHeadingsParsed ==
    (pc = "returned" /\ ret.info_extraction # None)
        => InOrder(resp_str, ExpectedHeadings, 1)

\* C4 amended: parse_response raises whenever the reply lacks
\* "## General Chapter Summary", or (holding no skip sentinel) lacks
\* "## Information Extraction" before it or has fewer than seven "###"
\* between the two; the titles after "###" are not looked at
C4_MissingStructureRaises ==
    Finished =>
        /\ ~HasSummaryHeading(resp_str) => raised
        /\ (/\ ~HasSentinel(resp_str)
            /\ \/ ~Occurs(BeforeSummary(resp_str),
                          <<"#", "#", " Information Extraction">>)
               \/ MarkCount(ExtractionBlock(resp_str)) < 7)
              => raised

C4_Witness ==
    /\ pc = "raised"
    /\ ~HasSentinel(resp_str)
    /\ HasSummaryHeading(resp_str)
    /\ ~Occurs(BeforeSummary(resp_str), <<"#", "#", " Information Extraction">>)
    /\ MarkCount(BeforeSummary(resp_str)) >= 7

-----------------------------------------------------------------------------
(* C5 *)

\* s is well-formed: no skip sentinel; "## Information Extraction" once
\* before "## General Chapter Summary"; between them exactly seven "###",
\* each directly followed by its title, in the order of SectionTitles
WellFormedReply(s) ==
    /\ ~HasSentinel(s)
    /\ HasSummaryHeading(s)
    /\ Occurs(BeforeSummary(s), <<"#", "#", " Information Extraction">>)
    /\ LET block == ExtractionBlock(s)
           m == Marks(block)
       IN /\ ~Occurs(block, <<"#", "#", " Information Extraction">>)
          /\ Len(m) = 7
          /\ \A k \in 1..7 :
                m[k] + 3 <= Len(block) /\ block[m[k] + 3] = SectionTitles[k]

\* the k-th section of a well-formed reply: from its "###" to the next
\* section's "###", the seventh to "## General Chapter Summary"
SectionOf(s, k) ==
    LET block == ExtractionBlock(s)
        m == Marks(block)
    IN SubSeq(block, m[k], IF k = 7 THEN Len(block) ELSE m[k + 1] - 1)

\* C5 as stated: for a well-formed reply the k-th field is the k-th
\* section's text, for each of the seven fields
C5_Original_FieldsAreSections ==
    (Finished /\ WellFormedReply(resp_str))
        => /\ pc = "returned"
           /\ \A k \in 1..7 :
                 ret.info_extraction[FieldNames[k]] = SectionOf(resp_str, k)

\* C5 amended: for a well-formed reply the k-th field is the k-th section's
\* text, the seventh (main_arc) without its trailing whitespace
C5_FieldsAreSectionsStripped ==
    (Finished /\ WellFormedReply(resp_str))
        => /\ pc = "returned"
           /\ ret.skipped_info_extraction = FALSE
           /\ \A k \in 1..6 :
                 ret.info_extraction[FieldNames[k]] = SectionOf(resp_str, k)
           /\ ret.info_extraction.main_arc = RStrip(SectionOf(resp_str, 7))

C5_Witness ==
    /\ pc = "returned"
    /\ WellFormedReply(resp_str)
    /\ SectionOf(resp_str, 2) = <<"#", "#", "#", " Chronology", "\n">>
    /\ SectionOf(resp_str, 7) = <<"#", "#", "#", " Story Arc", "x", "\n", " ">>
    /\ ret.info_extraction.events = <<"#", "#", "#", " Chronology", "\n">>
    /\ ret.info_extraction.main_arc = <<"#", "#", "#", " Story Arc", "x">>

-----------------------------------------------------------------------------
(* C10 *)

\* C10 as stated: chapter_summary is "## Chapter Summary" followed by all
\* of the reply after the heading "## General Chapter Summary"
C10_Original_SummaryToEnd ==
    pc = "returned" =>
        ret.chapter_summary
            = <<"#", "#", " Chapter Summary">> \o AfterSummaryHeading(resp_str)

\* C10 amended: chapter_summary is "## Chapter Summary" followed by the
\* reply text between the first "## General Chapter Summary" and the next
\* one (the end of the reply when there is no other); the extraction fields
\* are text from before the first heading; a reply without the heading
\* raises
C10_SummaryToNextHeading ==
    Finished =>
        /\ ~HasSummaryHeading(resp_str) => (raised /\ ret = NoValue)
        /\ pc = "returned" =>
              /\ ret.chapter_summary
                    = <<"#", "#", " Chapter Summary">>
                        \o FirstSummaryBlock(resp_str)
              /\ ret.info_extraction # None =>
                    \A k \in 1..7 :
                        LET f == ret.info_extraction[FieldNames[k]]
                        IN /\ SubSeq(f, 1, 3) = <<"#", "#", "#">>
                           /\ Occurs(BeforeSummary(resp_str),
                                     SubSeq(f, 4, Len(f)))

C10_Witness ==
    /\ pc = "returned"
    /\ ret.info_extraction # None
    /\ FirstSummaryBlock(resp_str) # AfterSummaryHeading(resp_str)
    /\ FirstSummaryBlock(resp_str) # <<>>

-----------------------------------------------------------------------------
(* Specification SpecPrompt: the prompt built from the caller's arguments *)

OptionalTexts == {None} \cup {Str(t) : t \in Texts}

InitPrompt ==
    /\ pc = "idle" /\ op = "none"
    /\ title \in Texts /\ content \in Texts
    /\ story_so_far \in OptionalTexts /\ prev_chap_context \in OptionalTexts
    /\ prompt = <<>> /\ resp_str = <<>> /\ ret = NoValue /\ raised = FALSE
    /\ last_response = Unset /\ client = "QdrantClient"
    /\ llm_calls = 0 /\ llm_prompt = <<>> /\ history = <<>>
    /\ trace = <<>> /\ calls = 0

\* prompt(title, content, story_so_far, prev_chap_context); trace keeps the
\* prompts of the successive calls
BuildPrompt ==
    /\ calls < MaxCalls
    /\ prompt' = AgentPrompt(title, content, story_so_far, prev_chap_context)
    /\ trace' = Append(trace, prompt')
    /\ calls' = calls + 1
    /\ op' = "prompt"
    /\ pc' = "returned"
    /\ UNCHANGED <<title, content, story_so_far, prev_chap_context, resp_str,
                   ret, raised, last_response, client, llm_calls, llm_prompt,
                   history>>

\* mock_template()
BuildMockTemplate ==
    /\ calls < MaxCalls
    /\ prompt' = mock_template
    /\ calls' = calls + 1
    /\ op' = "mock_template"
    /\ pc' = "returned"
    /\ UNCHANGED <<title, content, story_so_far, prev_chap_context, resp_str,
                   ret, raised, last_response, client, llm_calls, llm_prompt,
                   history, trace>>

NextPrompt == BuildPrompt \/ BuildMockTemplate

SpecPrompt == InitPrompt /\ [][NextPrompt]_vars

-----------------------------------------------------------------------------
(* C6 *)

ContinuityClause == <<"#", "#", " 3.", " Previous Chapter(s) Summary:">>

PromptBuilt == op = "prompt" /\ pc = "returned"

\* C6 as stated: the prompt holds the continuity clause exactly when the
\* previous-chapter context is given and not empty
C6_Original_ClauseIffNonEmpty ==
    PromptBuilt =>
        (Occurs(prompt, ContinuityClause)
            <=> (prev_chap_context # None /\ prev_chap_context.str # <<>>))

\* C6 amended: the prompt holds the continuity clause exactly when a
\* previous-chapter context is passed (is not None), the empty string
\* included
C6_ClauseIffSupplied ==
    PromptBuilt =>
        (Occurs(prompt, ContinuityClause) <=> prev_chap_context # None)

C6_Witness ==
    /\ PromptBuilt
    /\ prev_chap_context = Str(<<>>)
    /\ Occurs(prompt, ContinuityClause)

-----------------------------------------------------------------------------
(* C7 *)

\* C7: the "# Story So Far:" block is in the prompt exactly when
\* story_so_far is passed and the "# Previous Chapter(s) Context:" block
\* exactly when prev_chap_context is passed, each whatever the other; the
\* block holds the passed text; the mandatory headings are there, in order,
\* also with both omitted; the same arguments give the same prompt
C7_OptionalBlocksAndHeadings ==
    PromptBuilt =>
        /\ Occurs(prompt, <<"#", " Story So Far:">>) <=> story_so_far # None
        /\ Occurs(prompt, <<"#", " Previous Chapter(s) Context:">>)
              <=> prev_chap_context # None
        /\ story_so_far # None =>
              Occurs(prompt, <<"#", " Story So Far:", "\n">> \o story_so_far.str
                                \o <<"\n">>)
        /\ prev_chap_context # None =>
              Occurs(prompt, <<"#", " Previous Chapter(s) Context:", "\n">>
                                \o prev_chap_context.str \o <<"\n">>)
        /\ InOrder(prompt, ExpectedHeadings, 1)
        /\ \A i \in 1..Len(trace) : trace[i] = prompt

C7_Witness ==
    /\ PromptBuilt
    /\ story_so_far = None /\ prev_chap_context # None
    /\ ~Occurs(prompt, <<"#", " Story So Far:">>)
    /\ Occurs(prompt, <<"#", " Previous Chapter(s) Context:">>)
    /\ Len(trace) = 2

-----------------------------------------------------------------------------
(* Specification Spec: one ReadChapterAgent, calls of generate and        *)
(* _mock_generate one after the other (single-threaded, synchronous).     *)
(* A call runs line by line; a raised exception ends it and the caller    *)
(* may go on using the agent.                                             *)

\* replies of each kind: well-formed, skipped, too few sections, headings
\* missing, summary heading twice
AgentReplies ==
    {WellFormed(<<>>, SectionTitles, <<"x">>, <<"\n">>, <<"\n">>, <<"\n", "x">>),
     WellFormed(<<>>, SectionTitles, <<>>, <<"x">>, <<>>, <<"x">>),
     Reply(<<>>, 2, SectionTitles, 0, Same(<<>>), <<"\n">>, 2, <<"\n", "x">>, "block"),
     Reply(<<>>, 2, SectionTitles, 6, Same(<<"x">>), <<"\n">>, 2, <<"\n", "x">>, "none"),
     Reply(<<>>, 2, SectionTitles, 7, Same(<<"x">>), <<"\n">>, 0, <<"\n", "x">>, "none"),
     Reply(<<>>, 0, SectionTitles, 0, Same(<<>>), <<"\n">>, 0, <<>>, "block")}

AgentTitles == {<<"x">>}
AgentTexts == {<<"x">>, <<"x", "\n", "x">>}
AgentStories == {None, Str(<<"x">>)}
AgentContexts == {None, Str(<<>>), Str(<<"x">>)}

Quiescent == pc \in {"idle", "returned", "raised"}

\* __init__: nothing generated yet, last_response not assigned
Init ==
    /\ pc = "idle" /\ op = "none"
    /\ title = <<>> /\ content = <<>>
    /\ story_so_far = None /\ prev_chap_context = None
    /\ prompt = <<>> /\ resp_str = <<>> /\ ret = NoValue /\ raised = FALSE
    /\ last_response = Unset /\ client = "QdrantClient"
    /\ llm_calls = 0 /\ llm_prompt = <<>> /\ history = <<>>
    /\ trace = <<>> /\ calls = 0

\* what BaseAgent.generate(prompt) does to the agent and the LLM wrapper:
\* the model is invoked once with the prompt and its reply is returned
BaseAgent_generate(prompt_, reply) ==
    /\ llm_calls' = llm_calls + 1
    /\ llm_prompt' = prompt_
    /\ history' = Append(history, "llm")
    /\ resp_str' = reply

\* what BaseAgent._mock_generate(prompt, response) does: the canned
\* response is added to the history, the model is not invoked
BaseAgent_mock_generate(prompt_, response) ==
    /\ history' = Append(history, "mock")
    /\ UNCHANGED <<llm_calls, llm_prompt, resp_str>>

\* a caller invokes generate(title, content, story_so_far, prev_chap_context)
CallGenerate ==
    /\ Quiescent /\ calls < MaxCalls
    /\ \E t \in AgentTitles, c \in AgentTexts,
          s \in AgentStories, p \in AgentContexts :
          /\ title' = t /\ content' = c
          /\ story_so_far' = s /\ prev_chap_context' = p
    /\ op' = "generate" /\ pc' = "generate:269"
    /\ prompt' = <<>> /\ resp_str' = <<>> /\ ret' = NoValue /\ raised' = FALSE
    /\ trace' = <<>> /\ calls' = calls + 1
    /\ UNCHANGED <<last_response, client, llm_calls, llm_prompt, history>>

\* line 269: prompt = self.prompt(...)
Generate269 ==
    /\ pc = "generate:269"
    /\ prompt' = AgentPrompt(title, content, story_so_far, prev_chap_context)
    /\ trace' = Append(trace, "prompt")
    /\ pc' = "generate:270"
    /\ UNCHANGED <<op, title, content, story_so_far, prev_chap_context,
                   resp_str, ret, raised, last_response, client, llm_calls,
                   llm_prompt, history, calls>>

\* line 270: resp_str = super().generate(prompt)
Generate270 ==
    /\ pc = "generate:270"
    /\ \E reply \in AgentReplies : BaseAgent_generate(prompt, reply)
    /\ trace' = Append(trace, "model")
    /\ pc' = "generate:271"
    /\ UNCHANGED <<op, title, content, story_so_far, prev_chap_context,
                   prompt, ret, raised, last_response, client, calls>>

\* lines 271-272 with the assignment made before the parse can fail
Generate271_ClearFirst ==
    /\ pc = "generate:271"
    /\ trace' = Append(trace, "parse")
    /\ IF parse_response(resp_str) = IndexError
       THEN /\ raised' = TRUE /\ pc' = "raised"
            /\ last_response' = None
            /\ UNCHANGED ret
       ELSE /\ last_response' = parse_response(resp_str)
            /\ ret' = last_response'
            /\ pc' = "returned"
            /\ UNCHANGED raised
    /\ UNCHANGED <<op, title, content, story_so_far, prev_chap_context,
                   prompt, resp_str, client, llm_calls, llm_prompt, history,
                   calls>>

\* lines 271-272: self.last_response = parse_response(resp_str); return it
Generate271 ==
    /\ pc = "generate:271"
    /\ trace' = Append(trace, "parse")
    /\ IF parse_response(resp_str) = IndexError
       THEN /\ raised' = TRUE /\ pc' = "raised"
            /\ UNCHANGED <<last_response, ret>>
       ELSE /\ last_response' = parse_response(resp_str)
            /\ ret' = last_response'
            /\ pc' = "returned"
            /\ UNCHANGED raised
    /\ UNCHANGED <<op, title, content, story_so_far, prev_chap_context,
                   prompt, resp_str, client, llm_calls, llm_prompt, history,
                   calls>>

\* a caller invokes _mock_generate(response, title, content, ...)
CallMockGenerate ==
    /\ Quiescent /\ calls < MaxCalls
    /\ \E response \in AgentReplies, t \in AgentTitles, c \in AgentTexts,
          s \in AgentStories, p \in AgentContexts :
          /\ resp_str' = response
          /\ title' = t /\ content' = c
          /\ story_so_far' = s /\ prev_chap_context' = p
    /\ op' = "_mock_generate" /\ pc' = "mock:287"
    /\ prompt' = <<>> /\ ret' = NoValue /\ raised' = FALSE
    /\ trace' = <<>> /\ calls' = calls + 1
    /\ UNCHANGED <<last_response, client, llm_calls, llm_prompt, history>>

\* line 287: prompt = self.prompt(...)
Mock287 ==
    /\ pc = "mock:287"
    /\ prompt' = AgentPrompt(title, content, story_so_far, prev_chap_context)
    /\ trace' = Append(trace, "prompt")
    /\ pc' = "mock:288"
    /\ UNCHANGED <<op, title, content, story_so_far, prev_chap_context,
                   resp_str, ret, raised, last_response, client, llm_calls,
                   llm_prompt, history, calls>>

\* line 288 calling super().generate(prompt) and parsing its reply
Mock288_CallsModel ==
    /\ pc = "mock:288"
    /\ \E reply \in AgentReplies : BaseAgent_generate(prompt, reply)
    /\ trace' = Append(trace, "model")
    /\ pc' = "mock:289"
    /\ UNCHANGED <<op, title, content, story_so_far, prev_chap_context,
                   prompt, ret, raised, last_response, client, calls>>

\* line 288: super()._mock_generate(prompt, response)
Mock288 ==
    /\ pc = "mock:288"
    /\ BaseAgent_mock_generate(prompt, resp_str)
    /\ trace' = Append(trace, "mock")
    /\ pc' = "mock:289"
    /\ UNCHANGED <<op, title, content, story_so_far, prev_chap_context,
                   prompt, ret, raised, last_response, client, calls>>

\* lines 289-290: self.last_response = parse_response(response); return it
Mock289 ==
    /\ pc = "mock:289"
    /\ trace' = Append(trace, "parse")
    /\ IF parse_response(resp_str) = IndexError
       THEN /\ raised' = TRUE /\ pc' = "raised"
            /\ UNCHANGED <<last_response, ret>>
       ELSE /\ last_response' = parse_response(resp_str)
            /\ ret' = last_response'
            /\ pc' = "returned"
            /\ UNCHANGED raised
    /\ UNCHANGED <<op, title, content, story_so_far, prev_chap_context,
                   prompt, resp_str, client, llm_calls, llm_prompt, history,
                   calls>>

\* _store_response(self.last_response): builds a local payload, stores and
\* changes nothing
StoreResponse ==
    /\ Quiescent /\ last_response # Unset
    /\ UNCHANGED vars

Next ==
    \/ CallGenerate \/ Generate269 \/ Generate270 \/ Generate271
    \/ CallMockGenerate \/ Mock287 \/ Mock288 \/ Mock289
    \/ StoreResponse

Spec == Init /\ [][Next]_vars

-----------------------------------------------------------------------------
(* C8 *)

\* C8: last_response is unset at first; a step changes it only by ending a
\* call whose parse succeeded, and then to the response that call returns;
\* every other step, a call ending in an exception included, leaves it as
\* it was; self.client is never changed
C8_Step ==
    /\ client' = client
    /\ IF ~Quiescent /\ pc' = "returned"
       THEN /\ ret' = parse_response(resp_str)
            /\ last_response' = ret'
       ELSE last_response' = last_response
    /\ (~Quiescent /\ pc' = "raised") =>
          (parse_response(resp_str) = IndexError /\ ret' = NoValue)

C8_LastResponseFrame == (last_response = Unset) /\ [][C8_Step]_vars

C8_Witness ==
    /\ pc = "raised"
    /\ calls = 2
    /\ last_response # Unset
    /\ last_response.full_response # resp_str

-----------------------------------------------------------------------------
(* C9 *)

CountOf(seq, x) == Cardinality({i \in 1..Len(seq) : seq[i] = x})

\* C9: a finished generate has built the prompt, then invoked the model
\* once, with that prompt, then parsed the model's reply; a finished
\* _mock_generate has not invoked the model, and what it returns is
\* parse_response of the canned response, whatever the other arguments;
\* the model has been invoked once per generate and never otherwise
C9_GenerateOrderAndMock ==
    /\ llm_calls = CountOf(history, "llm")
    /\ (Quiescent /\ op = "generate") =>
          /\ trace = <<"prompt", "model", "parse">>
          /\ prompt = template(title, content, story_so_far, prev_chap_context)
          /\ llm_prompt = prompt
          /\ history[Len(history)] = "llm"
          /\ pc = "returned" => ret = parse_response(resp_str)
    /\ (Quiescent /\ op = "_mock_generate") =>
          /\ trace = <<"prompt", "mock", "parse">>
          /\ history[Len(history)] = "mock"
          /\ pc = "returned" => ret = parse_response(resp_str)
          /\ pc = "raised" => parse_response(resp_str) = IndexError
    /\ (op = "_mock_generate" /\ calls = 1) => llm_calls = 0

C9_Witness ==
    /\ op = "_mock_generate" /\ pc = "returned"
    /\ calls = 2
    /\ llm_calls = 1
    /\ ret.info_extraction # None

====
